---- MODULE Spec2Model ----
(***************************************************************************)
(* A model of the sailfish Euler drivers (ideas/sailfish0.6.py): the       *)
(* solver registry, the kernels of the per-face and per-zone solvers, the  *)
(* Runge-Kutta drivers update_prim / update_prim2d and the driver loop.    *)
(*                                                                         *)
(* Arithmetic is fixed point: every double of the program is an integer,   *)
(* a division truncates toward zero, and the energy slot of a conserved    *)
(* state holds 2E so that gamma = 5/3 needs no fraction.                   *)
(***************************************************************************)
EXTENDS Integers, Sequences, FiniteSets, TLC

\* ------------------------------------------------------------------ bounds
\* Largest 1D array (guard cells included); 2D arrays are (MaxNi-1) x MaxNi.
MaxNi == 6
\* Largest number of advances the driver loop makes.
MaxCalls == 2
\* Largest number of configuration files on run's command line.
MaxConfigs == 2
\* Largest SRHD grid, largest number of patches, most calls on a Solver.
MaxZones == 6
MaxPatches == 3
MaxOps == 3

\* --------------------------------------------------------- program constants
\* plm_theta as update_prim receives it from simulation1d/2d (its default).
plm_theta == 2
\* dt = dx * 1e-1 in simulation1d/2d: the kernels see dt / dx = DT / DX.
DT == 1
DX == 10

\* ---------------------------------------------------------------- arithmetic
Abs(x) == IF x < 0 THEN -x ELSE x
Min2(a, b) == IF a < b THEN a ELSE b
Max2(a, b) == IF a < b THEN b ELSE a
\* A double division, rounded toward zero; x / 0 yields no trap in a kernel.
TDiv(a, b) ==
  IF b = 0 THEN 0
  ELSE IF (a < 0) = (b < 0) THEN Abs(a) \div Abs(b) ELSE -(Abs(a) \div Abs(b))

\* copysign(1.0, x)
sign(x) == IF x >= 0 THEN 1 ELSE -1

\* plm_minmod, in halves: a2, b2, c2 are 2a, 2b, 2c of the source.
plm_minmod(yl, yc, yr, theta) ==
  LET a2 == 2 * (yc - yl) * theta
      b2 == yr - yl
      c2 == 2 * (yr - yc) * theta
      m2 == Min2(Abs(a2), Min2(Abs(b2), Abs(c2)))
  IN TDiv(Abs(sign(a2) + sign(b2)) * (sign(a2) + sign(c2)) * m2, 8)

\* 0.5 * g
Half(g) == TDiv(g, 2)

\* ------------------------------------------------------------- Euler algebra
\* lib_euler: u = (rho, rho v, E), E = p / (gamma - 1) + rho v^2 / 2 with
\* gamma = 5/3; the last slot holds 2E = 3p + rho v^2.
prim_to_cons(p) ==
  IF Len(p) = 3
  THEN <<p[1], p[1] * p[2], 3 * p[3] + p[1] * p[2] * p[2]>>
  ELSE <<p[1], p[1] * p[2], p[1] * p[3],
         3 * p[4] + p[1] * (p[2] * p[2] + p[3] * p[3])>>

cons_to_prim(u) ==
  IF Len(u) = 3
  THEN <<u[1], TDiv(u[2], u[1]), TDiv(u[3] - TDiv(u[2] * u[2], u[1]), 3)>>
  ELSE <<u[1], TDiv(u[2], u[1]), TDiv(u[3], u[1]),
         TDiv(u[4] - TDiv(u[2] * u[2] + u[3] * u[3], u[1]), 3)>>

\* The physical flux of a primitive state along an axis (energy slot doubled).
prim_to_flux(p, axis) ==
  LET n == Len(p)
      vn == p[1 + axis]
      u == prim_to_cons(p)
  IN [q \in 1..n |->
        IF q = 1 THEN p[1] * vn
        ELSE IF q = n THEN (u[n] + 2 * p[n]) * vn
        ELSE p[1] * p[q] * vn + (IF q = 1 + axis THEN p[n] ELSE 0)]

\* The sound speed sqrt(gamma p / rho), rounded up.
sound_speed(p) ==
  LET n == Len(p)
  IN IF p[1] <= 0 \/ p[n] <= 0 THEN 0
     ELSE CHOOSE c \in 1..(5 * p[n]) :
            /\ 3 * p[1] * c * c >= 5 * p[n]
            /\ \A d \in 1..(c - 1) : 3 * p[1] * d * d < 5 * p[n]

riemann_hlle(pl, pr, axis) ==
  LET n == Len(pl)
      ul == prim_to_cons(pl)
      ur == prim_to_cons(pr)
      fl == prim_to_flux(pl, axis)
      fr == prim_to_flux(pr, axis)
      cl == sound_speed(pl)
      cr == sound_speed(pr)
      sl == Min2(pl[1 + axis] - cl, pr[1 + axis] - cr)
      sr == Max2(pl[1 + axis] + cl, pr[1 + axis] + cr)
  IN IF sl > 0 THEN fl
     ELSE IF sr < 0 THEN fr
     ELSE [q \in 1..n |->
             TDiv(sr * fl[q] - sl * fr[q] + sl * sr * (ur[q] - ul[q]), sr - sl)]

\* ------------------------------------------------------------------ memory
\* A heap holds the four arrays a call works on, by buffer name: the two
\* primitive buffers b0 and b1, the face buffer f and urk. An array maps a
\* cell index (i in 1D, <<i, j>> in 2D) to a cell. written is the set of slots
\* <<buffer, index>> of f and urk stored to since their empty_like; oob records
\* an access outside an array, uninit a load of a slot never stored to.
PrimBufs == {"b0", "b1"}
Other(b) == IF b = "b0" THEN "b1" ELSE "b0"
NoArray == << >>
ZeroCell(n) == [q \in 1..n |-> 0]

\* numpy's empty_like(a): the shape of a, contents arbitrary and never read.
empty_like(a) ==
  [c \in DOMAIN a |-> ZeroCell(Len(a[CHOOSE d \in DOMAIN a : TRUE]))]

CellLen(a) == IF DOMAIN a = {} THEN 3 ELSE Len(a[CHOOSE d \in DOMAIN a : TRUE])

\* A load; one outside the array yields whatever lies there.
LoadSlot(h, s) ==
  IF s[2] \in DOMAIN h[s[1]] THEN h[s[1]][s[2]]
  ELSE ZeroCell(CellLen(h.b0))

\* rk_blend with the rk of `rk * urk` forgotten.
rk_blend_unweighted(uc, rk, u0) == TDiv(uc * (rk[2] - rk[1]), rk[2]) + u0

\* uc *= (1.0 - rk); uc += rk * urk, with rk the fraction rk[1] / rk[2].
rk_blend(uc, rk, u0) == TDiv(uc * (rk[2] - rk[1]) + rk[1] * u0, rk[2])

\* ----------------------------------------------------------------- kernels
\* A launch L names the kernel and carries its arguments: cls and kernel,
\* the solver's runge_kutta and plm, the buffers rd (read) and wr (written),
\* rk, dt, dx, plm_theta and the shape ni, nj. The workers of a launch are
\* numbered 0..NumWorkers(L)-1 in the order a single host thread runs them.

\* FOR_RANGE_1D(a, b) / FOR_EACH_1D(n) of new_kernels: the indices a <= i < b,
\* as <<a, b>>; FOR_RANGE_2D(a, b, c, d) as <<a, b, c, d>>.
compute_godunov_fluxes_range(ni) == <<1, ni - 2>>
update_prim_range_wide(ni) == <<2, ni - 1>>
update_prim_range(ni) == <<2, ni - 2>>
prim_to_cons_array_range(ni) == <<1, ni - 1>>
update_prim_range_2d_wide(ni, nj) == <<1, ni - 2, 2, nj - 2>>
update_prim_range_2d(ni, nj) == <<2, ni - 2, 2, nj - 2>>
prim_to_cons_array_range_2d(ni, nj) == <<0, ni * nj>>

Is2D(L) == L.cls = "FluxPerZoneSolver2D"

KernelRange(L) ==
  CASE L.kernel = "compute_godunov_fluxes" -> compute_godunov_fluxes_range(L.ni)
    [] L.kernel = "prim_to_cons_array" /\ Is2D(L) ->
         prim_to_cons_array_range_2d(L.ni, L.nj)
    [] L.kernel = "prim_to_cons_array" -> prim_to_cons_array_range(L.ni)
    [] L.kernel = "update_prim" /\ Is2D(L) -> update_prim_range_2d(L.ni, L.nj)
    [] OTHER -> update_prim_range(L.ni)

Extent(a, b) == IF b > a THEN b - a ELSE 0

\* The number of workers that pass the kernel's range test.
NumWorkers(L) ==
  LET r == KernelRange(L)
  IN IF Len(r) = 4 THEN Extent(r[1], r[2]) * Extent(r[3], r[4])
     ELSE Extent(r[1], r[2])

\* The cell worker w works on: i in 1D, <<i, j>> in 2D (the flat index of the
\* 2D prim_to_cons_array is i * nj + j).
WorkerCell(L, w) ==
  LET r == KernelRange(L)
  IN IF Len(r) = 4
     THEN <<r[1] + (w \div Extent(r[3], r[4])), r[3] + (w % Extent(r[3], r[4]))>>
     ELSE IF Is2D(L) THEN <<(r[1] + w) \div L.nj, (r[1] + w) % L.nj>>
     ELSE r[1] + w

\* FluxPerFaceSolver.compute_godunov_fluxes: worker i loads p[i-1..i+2] (PLM)
\* or p[i], p[i+1] (PCM) and stores f[i+1].
compute_godunov_fluxes_reads(L, i) ==
  {<<L.rd, i + k>> : k \in (IF L.plm THEN -1..2 ELSE 0..1)}

\* compute_godunov_fluxes_faces with the right state left at the cell value.
compute_godunov_fluxes_faces_flat_right(v, L, i) ==
  LET P(k) == v[<<L.rd, i + k>>]
  IN [pm |-> [q \in 1..3 |->
                IF L.plm
                THEN P(0)[q] + Half(plm_minmod(P(-1)[q], P(0)[q], P(1)[q], L.plm_theta))
                ELSE P(0)[q]],
      pp |-> P(1)]

\* The states pm | pp at the face between the cells i and i+1.
compute_godunov_fluxes_faces(v, L, i) ==
  LET P(k) == v[<<L.rd, i + k>>]
  IN [pm |-> [q \in 1..3 |->
                IF L.plm
                THEN P(0)[q] + Half(plm_minmod(P(-1)[q], P(0)[q], P(1)[q], L.plm_theta))
                ELSE P(0)[q]],
      pp |-> [q \in 1..3 |->
                IF L.plm
                THEN P(1)[q] - Half(plm_minmod(P(0)[q], P(1)[q], P(2)[q], L.plm_theta))
                ELSE P(1)[q]]]

compute_godunov_fluxes_value(v, L, i) ==
  LET s == compute_godunov_fluxes_faces(v, L, i)
  IN riemann_hlle(s.pm, s.pp, 1)

\* FluxPerFaceSolver.update_prim: worker i loads p[i], f[i], f[i+1] (and
\* urk[i] under RUNGE_KUTTA) and stores p[i].
FluxPerFaceSolver_update_prim_reads(L, i) ==
  {<<L.rd, i>>, <<"f", i>>, <<"f", i + 1>>}
    \cup (IF L.runge_kutta THEN {<<"urk", i>>} ELSE {})

FluxPerFaceSolver_update_prim_value(v, L, i) ==
  LET uc == prim_to_cons(v[<<L.rd, i>>])
      fm == v[<<"f", i>>]
      fp == v[<<"f", i + 1>>]
      u1 == [q \in 1..3 |-> uc[q] - TDiv((fp[q] - fm[q]) * L.dt, L.dx)]
      u2 == IF L.runge_kutta
            THEN [q \in 1..3 |-> rk_blend(u1[q], L.rk, v[<<"urk", i>>][q])]
            ELSE u1
  IN cons_to_prim(u2)

\* prim_to_cons_array (all three solvers): worker i loads p[i], stores u[i].
prim_to_cons_array_reads(L, i) == {<<L.rd, i>>}

prim_to_cons_array_value(v, L, i) == prim_to_cons(v[<<L.rd, i>>])

\* FluxPerZoneSolver.update_prim: worker i loads prd[i-2..i+2] (PLM) or
\* prd[i-1..i+1] (PCM) (and urk[i] under RUNGE_KUTTA) and stores pwr[i].
FluxPerZoneSolver_update_prim_reads(L, i) ==
  {<<L.rd, i + k>> : k \in (IF L.plm THEN -2..2 ELSE -1..1)}
    \cup (IF L.runge_kutta THEN {<<"urk", i>>} ELSE {})

\* FluxPerZoneSolver_faces with the right state of the right face limited by
\* the slope of the cell itself instead of its right neighbour's.
FluxPerZoneSolver_faces_own_slope(v, L, i) ==
  LET P(k) == v[<<L.rd, i + k>>]
      th == L.plm_theta
      gl(q) == plm_minmod(P(-2)[q], P(-1)[q], P(0)[q], th)
      gc(q) == plm_minmod(P(-1)[q], P(0)[q], P(1)[q], th)
  IN [plp |-> [q \in 1..3 |-> IF L.plm THEN P(-1)[q] + Half(gl(q)) ELSE P(-1)[q]],
      pcm |-> [q \in 1..3 |-> IF L.plm THEN P(0)[q] - Half(gc(q)) ELSE P(0)[q]],
      pcp |-> [q \in 1..3 |-> IF L.plm THEN P(0)[q] + Half(gc(q)) ELSE P(0)[q]],
      prm |-> [q \in 1..3 |-> IF L.plm THEN P(1)[q] - Half(gc(q)) ELSE P(1)[q]]]

\* The four face states of cell i: plp | pcm at its left face, pcp | prm at its
\* right face.
FluxPerZoneSolver_faces(v, L, i) ==
  LET P(k) == v[<<L.rd, i + k>>]
      th == L.plm_theta
      gl(q) == plm_minmod(P(-2)[q], P(-1)[q], P(0)[q], th)
      gc(q) == plm_minmod(P(-1)[q], P(0)[q], P(1)[q], th)
      gr(q) == plm_minmod(P(0)[q], P(1)[q], P(2)[q], th)
  IN [plp |-> [q \in 1..3 |-> IF L.plm THEN P(-1)[q] + Half(gl(q)) ELSE P(-1)[q]],
      pcm |-> [q \in 1..3 |-> IF L.plm THEN P(0)[q] - Half(gc(q)) ELSE P(0)[q]],
      pcp |-> [q \in 1..3 |-> IF L.plm THEN P(0)[q] + Half(gc(q)) ELSE P(0)[q]],
      prm |-> [q \in 1..3 |-> IF L.plm THEN P(1)[q] - Half(gr(q)) ELSE P(1)[q]]]

\* riemann_hlle(plp, pcm, fm, 1); riemann_hlle(pcp, prm, fp, 1)
FluxPerZoneSolver_fluxes(v, L, i) ==
  LET s == FluxPerZoneSolver_faces(v, L, i)
  IN [fm |-> riemann_hlle(s.plp, s.pcm, 1), fp |-> riemann_hlle(s.pcp, s.prm, 1)]

FluxPerZoneSolver_update_prim_value(v, L, i) ==
  LET fl == FluxPerZoneSolver_fluxes(v, L, i)
      fm == fl.fm
      fp == fl.fp
      uc == prim_to_cons(v[<<L.rd, i>>])
      u1 == [q \in 1..3 |-> uc[q] - TDiv((fp[q] - fm[q]) * L.dt, L.dx)]
      u2 == IF L.runge_kutta
            THEN [q \in 1..3 |-> rk_blend(u1[q], L.rk, v[<<"urk", i>>][q])]
            ELSE u1
  IN cons_to_prim(u2)

\* FluxPerZoneSolver2D.update_prim: worker (i, j) loads the cross of radius 2
\* (PLM) or 1 (PCM) around prd[i, j] and stores pwr[i, j].
FluxPerZoneSolver2D_update_prim_reads(L, c) ==
  LET r == IF L.plm THEN 2 ELSE 1
  IN {<<L.rd, <<c[1] + k, c[2]>>>> : k \in -r..r}
       \cup {<<L.rd, <<c[1], c[2] + k>>>> : k \in -r..r}
       \cup (IF L.runge_kutta THEN {<<"urk", c>>} ELSE {})

FluxPerZoneSolver2D_update_prim_value(v, L, c) ==
  LET I(k) == v[<<L.rd, <<c[1] + k, c[2]>>>>]
      J(k) == v[<<L.rd, <<c[1], c[2] + k>>>>]
      th == L.plm_theta
      gil(q) == plm_minmod(I(-2)[q], I(-1)[q], I(0)[q], th)
      gic(q) == plm_minmod(I(-1)[q], I(0)[q], I(1)[q], th)
      gir(q) == plm_minmod(I(0)[q], I(1)[q], I(2)[q], th)
      gjl(q) == plm_minmod(J(-2)[q], J(-1)[q], J(0)[q], th)
      gjc(q) == plm_minmod(J(-1)[q], J(0)[q], J(1)[q], th)
      gjr(q) == plm_minmod(J(0)[q], J(1)[q], J(2)[q], th)
      pilp == [q \in 1..4 |-> IF L.plm THEN I(-1)[q] + Half(gil(q)) ELSE I(-1)[q]]
      picm == [q \in 1..4 |-> IF L.plm THEN I(0)[q] - Half(gic(q)) ELSE I(0)[q]]
      picp == [q \in 1..4 |-> IF L.plm THEN I(0)[q] + Half(gic(q)) ELSE I(0)[q]]
      pirm == [q \in 1..4 |-> IF L.plm THEN I(1)[q] - Half(gir(q)) ELSE I(1)[q]]
      pjlp == [q \in 1..4 |-> IF L.plm THEN J(-1)[q] + Half(gjl(q)) ELSE J(-1)[q]]
      pjcm == [q \in 1..4 |-> IF L.plm THEN J(0)[q] - Half(gjc(q)) ELSE J(0)[q]]
      pjcp == [q \in 1..4 |-> IF L.plm THEN J(0)[q] + Half(gjc(q)) ELSE J(0)[q]]
      pjrm == [q \in 1..4 |-> IF L.plm THEN J(1)[q] - Half(gjr(q)) ELSE J(1)[q]]
      fm == riemann_hlle(pilp, picm, 1)
      fp == riemann_hlle(picp, pirm, 1)
      gm == riemann_hlle(pjlp, pjcm, 2)
      gp == riemann_hlle(pjcp, pjrm, 2)
      ucc == prim_to_cons(I(0))
      u1 == [q \in 1..4 |->
               ucc[q] - TDiv((fp[q] - fm[q] + gp[q] - gm[q]) * L.dt, L.dx)]
      u2 == IF L.runge_kutta
            THEN [q \in 1..4 |-> rk_blend(u1[q], L.rk, v[<<"urk", c>>][q])]
            ELSE u1
  IN cons_to_prim(u2)

\* The slots worker w of launch L loads.
Reads(L, w) ==
  LET c == WorkerCell(L, w)
  IN CASE L.kernel = "compute_godunov_fluxes" -> compute_godunov_fluxes_reads(L, c)
       [] L.kernel = "prim_to_cons_array" -> prim_to_cons_array_reads(L, c)
       [] L.cls = "FluxPerFaceSolver" -> FluxPerFaceSolver_update_prim_reads(L, c)
       [] L.cls = "FluxPerZoneSolver" -> FluxPerZoneSolver_update_prim_reads(L, c)
       [] OTHER -> FluxPerZoneSolver2D_update_prim_reads(L, c)

\* The slot worker w of launch L stores to.
Writes(L, w) ==
  LET c == WorkerCell(L, w)
  IN IF L.kernel = "compute_godunov_fluxes" THEN <<L.wr, c + 1>> ELSE <<L.wr, c>>

\* What worker w stores, computed from the slots it loads and nothing else.
WorkerValue(h, L, w) ==
  LET c == WorkerCell(L, w)
      v == [s \in Reads(L, w) |-> LoadSlot(h, s)]
  IN CASE L.kernel = "compute_godunov_fluxes" -> compute_godunov_fluxes_value(v, L, c)
       [] L.kernel = "prim_to_cons_array" -> prim_to_cons_array_value(v, L, c)
       [] L.cls = "FluxPerFaceSolver" -> FluxPerFaceSolver_update_prim_value(v, L, c)
       [] L.cls = "FluxPerZoneSolver" -> FluxPerZoneSolver_update_prim_value(v, L, c)
       [] OTHER -> FluxPerZoneSolver2D_update_prim_value(v, L, c)

InArray(h, s) == s[2] \in DOMAIN h[s[1]]

\* One worker of a launch, run to completion on heap h.
Worker(h, L, w) ==
  LET rs == Reads(L, w)
      ws == Writes(L, w)
      val == WorkerValue(h, L, w)
  IN [h EXCEPT
        ![ws[1]] = IF InArray(h, ws) THEN [@ EXCEPT ![ws[2]] = val] ELSE @,
        !.written = IF ws[1] \in PrimBufs THEN @ ELSE @ \cup {ws},
        !.oob = @ \/ ~InArray(h, ws) \/ \E s \in rs : ~InArray(h, s),
        !.uninit = @ \/ \E s \in rs : s[1] \notin PrimBufs /\ s \notin h.written]

\* The workers lo..hi of a launch in ascending order (one host thread).
RECURSIVE RunWorkers(_, _, _, _)
RunWorkers(h, L, lo, hi) ==
  IF lo > hi THEN h ELSE RunWorkers(Worker(h, L, lo), L, lo + 1, hi)

\* A whole kernel launch.
RunKernel(h, L) == RunWorkers(h, L, 0, NumWorkers(L) - 1)

\* ---------------------------------------------------------------- registry
\* What a lookup or a call yields: a solver, None, or a raised exception.
Solver(cls, rk, plm) ==
  [tag |-> "solver", cls |-> cls, runge_kutta |-> rk, plm |-> plm]
None == [tag |-> "None", cls |-> "", runge_kutta |-> FALSE, plm |-> FALSE]
Raise(e) == [tag |-> e, cls |-> "", runge_kutta |-> FALSE, plm |-> FALSE]
Pending == [tag |-> "pending", cls |-> "", runge_kutta |-> FALSE, plm |-> FALSE]

Registries == {"FPFSolvers", "FPZSolvers", "FPZSolvers2D"}
KernelClass(reg) ==
  CASE reg = "FPFSolvers" -> "FluxPerFaceSolver"
    [] reg = "FPZSolvers" -> "FluxPerZoneSolver"
    [] OTHER -> "FluxPerZoneSolver2D"

\* A registry class before init() has no solver attributes.
NoAttrs == << >>

\* FPFSolvers.init / FPZSolvers.init / FPZSolvers2D.init: the four attributes.
init(reg) ==
  [a \in {"fwd_pcm", "rkn_pcm", "fwd_plm", "rkn_plm"} |->
     Solver(KernelClass(reg), a \in {"rkn_pcm", "rkn_plm"}, a \in {"fwd_plm", "rkn_plm"})]

\* cls.<name>: an attribute the class lacks raises AttributeError.
Attr(tbl, name) == IF name \in DOMAIN tbl THEN tbl[name] ELSE Raise("AttributeError")

\* SolverClass.get, on the attributes tbl of the class it is called on. An
\* if / elif chain that ends without a return yields None.
get(tbl, time_integration, reconstruction) ==
  IF reconstruction = "pcm"
  THEN IF time_integration = "fwd" THEN Attr(tbl, "fwd_pcm")
       ELSE IF time_integration \in {"rk1", "rk2", "rk3"} THEN Attr(tbl, "rkn_pcm")
       ELSE None
  ELSE IF reconstruction = "plm"
  THEN IF time_integration = "fwd" THEN Attr(tbl, "fwd_plm")
       ELSE IF time_integration \in {"rk1", "rk2", "rk3"} THEN Attr(tbl, "rkn_plm")
       ELSE None
  ELSE Raise("ValueError")

\* ------------------------------------------------------------------ drivers
\* rks with the last two coefficients of rk3 exchanged.
rks_exchanged(time_integration) ==
  CASE time_integration = "rk2" -> << <<0, 1>>, <<1, 2>> >>
    [] time_integration = "rk3" -> << <<0, 1>>, <<1, 3>>, <<3, 4>> >>
    [] OTHER -> << <<0, 1>> >>

\* The stage coefficients of update_prim / update_prim2d, as fractions; fwd
\* sets no list and runs its one stage with rk = 0.0.
NoStages == << >>
rks(time_integration) ==
  CASE time_integration = "fwd" -> << <<0, 1>> >>
    [] time_integration = "rk1" -> << <<0, 1>> >>
    [] time_integration = "rk2" -> << <<0, 1>>, <<1, 2>> >>
    [] time_integration = "rk3" -> << <<0, 1>>, <<3, 4>>, <<1, 3>> >>
    [] OTHER -> NoStages

\* per_zone_buffers with the copy forgotten: pwr = p.
per_zone_buffers_aliased(p) == [prd |-> p, pwr |-> p]

\* prd = p; pwr = p.copy(): the copy is a buffer of its own, here the one of
\* the two primitive buffers the caller holds no reference to.
per_zone_buffers(p) == [prd |-> p, pwr |-> Other(p)]

\* swap, forgotten.
swap_forgotten(rd, wr) == [prd |-> rd, pwr |-> wr]

\* prd, pwr = pwr, prd
swap(rd, wr) == [prd |-> wr, pwr |-> rd]

\* [None, simulation1d, simulation2d][dim], with Python's negative indices.
select_simulation(dim) ==
  LET sims == <<"None", "simulation1d", "simulation2d">>
  IN IF dim >= 0 /\ dim < 3 THEN sims[dim + 1]
     ELSE IF dim < 0 /\ dim >= -3 THEN sims[dim + 3 + 1]
     ELSE "IndexError"

\* ------------------------------------------------------------ initial arrays
\* linear_shocktube on cell_centers_1d: (1, 0, 1) where x < 0.5, else
\* (0.1, 0, 0.125), in units of 1/40; x_i = (i + 1/2) / ni.
linear_shocktube(ni) ==
  [i \in 0..(ni - 1) |-> IF 2 * i + 1 < ni THEN <<40, 0, 40>> ELSE <<4, 0, 5>>]

\* cylindrical_shocktube: density and pressure 1 inside the disk, else 0.1 and
\* 0.125, at rest; the disk covers the cell at the centre of the patch.
cylindrical_shocktube(ni, nj) ==
  [c \in (0..(ni - 1)) \X (0..(nj - 1)) |->
     IF c = <<ni \div 2, nj \div 2>> THEN <<40, 0, 0, 40>> ELSE <<4, 0, 0, 5>>]

\* Other arrays a caller may pass to update_prim / update_prim2d.
UniformState(dim) == IF dim = 1 THEN <<8, 2, 6>> ELSE <<8, 2, -1, 6>>
uniform_1d(ni) == [i \in 0..(ni - 1) |-> UniformState(1)]
uniform_2d(ni, nj) == [c \in (0..(ni - 1)) \X (0..(nj - 1)) |-> UniformState(2)]
ramp_1d(ni) == [i \in 0..(ni - 1) |-> <<8 + 4 * i, 1, 6 + 2 * i * i>>]
ramp_2d(ni, nj) ==
  [c \in (0..(ni - 1)) \X (0..(nj - 1)) |->
     <<8 + 4 * c[1] + 2 * c[2], 1, 1, 6 + 2 * c[1] * c[1] + 3 * c[2]>>]

\* A jump at the first interior face of the x axis.
step_1d(ni) == [i \in 0..(ni - 1) |-> IF i < 2 THEN <<40, 0, 40>> ELSE <<4, 0, 5>>]
step_2d(ni, nj) ==
  [c \in (0..(ni - 1)) \X (0..(nj - 1)) |->
     IF c[1] < 2 THEN <<40, 0, 0, 40>> ELSE <<4, 0, 0, 5>>]

Profiles == {"shocktube", "uniform", "ramp", "step"}

InitialArray(sim, c) ==
  IF sim = "simulation1d"
  THEN CASE c.profile = "shocktube" -> linear_shocktube(c.ni)
         [] c.profile = "uniform" -> uniform_1d(c.ni)
         [] c.profile = "step" -> step_1d(c.ni)
         [] OTHER -> ramp_1d(c.ni)
  ELSE CASE c.profile = "shocktube" -> cylindrical_shocktube(c.ni, c.nj)
         [] c.profile = "uniform" -> uniform_2d(c.ni, c.nj)
         [] c.profile = "step" -> step_2d(c.ni, c.nj)
         [] OTHER -> ramp_2d(c.ni, c.nj)

\* ------------------------------------------------------------ configuration
\* A string is the sequence of its characters, so that startswith, index and
\* slicing are computed. A dict is the sequence of its <<key, value>> items in
\* insertion order. A value is a node: a scalar (its text in val), null, or a
\* nested mapping (its items in items).
Scalar(x) == [map |-> FALSE, null |-> FALSE, val |-> x, items |-> << >>]
Null == [map |-> FALSE, null |-> TRUE, val |-> "", items |-> << >>]
Mapping(items) == [map |-> TRUE, null |-> FALSE, val |-> "", items |-> items]

Dot == "."
StartsWith(k, s) == Len(k) >= Len(s) /\ SubSeq(k, 1, Len(s)) = s
HasChar(k, ch) == \E i \in 1..Len(k) : k[i] = ch
\* k.index(ch), counted from 1; the caller checks HasChar.
IndexOf(k, ch) == CHOOSE i \in 1..Len(k) : k[i] = ch /\ \A j \in 1..(i - 1) : k[j] # ch

Has(d, k) == \E i \in 1..Len(d) : d[i][1] = k
Lookup(d, k) == d[CHOOSE i \in 1..Len(d) : d[i][1] = k][2]
Keys(d) == [i \in 1..Len(d) |-> d[i][1]]
\* d[k] = v: a key the dict has keeps its place.
SetItem(d, k, v) ==
  IF Has(d, k) THEN [i \in 1..Len(d) |-> IF d[i][1] = k THEN <<k, v>> ELSE d[i]]
  ELSE Append(d, <<k, v>>)

\* dict(items)
RECURSIVE dict(_)
dict(items) ==
  IF items = << >> THEN << >>
  ELSE LET n == Len(items)
       IN SetItem(dict(SubSeq(items, 1, n - 1)), items[n][1], items[n][2])

\* flatten_dict(d, parent_key, sep = "."): flatten_items is its loop.
RECURSIVE flatten_dict(_, _)
RECURSIVE flatten_items(_, _)
flatten_items(d, parent_key) ==
  IF d = << >> THEN << >>
  ELSE LET k == d[1][1]
           v == d[1][2]
           new_key == IF parent_key # << >> THEN parent_key \o <<Dot>> \o k ELSE k
       IN (IF v.map THEN flatten_dict(v.items, new_key) ELSE << <<new_key, v>> >>)
            \o flatten_items(Tail(d), parent_key)

flatten_dict(d, parent_key) == dict(flatten_items(d, parent_key))

\* ChainMap.__getitem__: the first map that has the key.
ChainMap_getitem(maps, k) ==
  Lookup(maps[CHOOSE i \in 1..Len(maps) :
                Has(maps[i], k) /\ \A j \in 1..(i - 1) : ~Has(maps[j], k)], k)

\* ChainMap.__iter__: the keys of the maps from the last map to the first, each
\* at its first place.
RECURSIVE ChainMap_iter(_)
ChainMap_iter(maps) ==
  IF maps = << >> THEN << >>
  ELSE LET later == ChainMap_iter(Tail(maps))
           mine == Keys(Head(maps))
       IN later \o SelectSeq(mine, LAMBDA k : \A i \in 1..Len(later) : later[i] # k)

ChainMap_items(maps) ==
  LET ks == ChainMap_iter(maps)
  IN [i \in 1..Len(ks) |-> <<ks[i], ChainMap_getitem(maps, ks[i])>>]

\* What dict_section yields: a dict, or the ValueError of k.index(".").
NoSection == [raised |-> "", items |-> << >>]

\* dict_section(d, section), on the items d of the mapping.
dict_section(d, section) ==
  LET sel == SelectSeq(d, LAMBDA it : StartsWith(it[1], section))
  IN IF \E i \in 1..Len(sel) : ~HasChar(sel[i][1], Dot)
     THEN [raised |-> "ValueError", items |-> << >>]
     ELSE [raised |-> "",
           items |-> dict([i \in 1..Len(sel) |->
                             <<SubSeq(sel[i][1], IndexOf(sel[i][1], Dot) + 1,
                                      Len(sel[i][1])),
                               sel[i][2]>>])]

\* load_config: a file is its name's extension and the mapping it holds.
load_config(config) ==
  IF config.ext \in {"json", "yaml"} THEN config.content ELSE << >>
load_config_raises(config) == config.ext \notin {"json", "yaml"}

\* The names run works with.
s_driver == <<"d", "r", "i", "v", "e", "r">>
s_drivers == <<"d", "r", "i", "v", "e", "r", "s">>
s_mesh == <<"m", "e", "s", "h">>
s_seed == <<"s", "e", "e", "d">>
s_configs == <<"c", "o", "n", "f", "i", "g", "s">>
s_resolution == <<"r", "e", "s", "o", "l", "u", "t", "i", "o", "n">>
s_fluxing == <<"f", "l", "u", "x", "i", "n", "g">>
s_dim == <<"d", "i", "m">>
s_bogus == <<"b", "o", "g", "u", "s">>
\* The options of driver this model follows, of its ten.
DriverKeys == {s_resolution, s_fluxing, s_dim}
\* driver.schema.validate: unknown keys fail.
validate(opts) == \A i \in 1..Len(opts) : opts[i][1] \in DriverKeys

\* ------------------------------------------------------------------ SRHD 1D
\* solvers/srhd_1d.py. An array maps the indices 0..n-1 to rows of num_cons
\* numbers. A patch holds primitive1 and three conserved buffers, named by
\* the handles conserved0, conserved1 and conserved2.
num_guard == 2
num_cons == 4

\* The row of global zone z of the primitive array given to Solver.
PrimitiveRow(z) == <<z + 2, z, 0, 2 * z + 1>>
ZeroRow == [q \in 1..num_cons |-> 0]
\* xp.zeros([n, nq])
zeros(n) == [k \in 0..(n - 1) |-> ZeroRow]
Size(a) == Cardinality(DOMAIN a)

\* subdivide(n, k): k contiguous parts <<a, b>>, the first n % k one longer.
RECURSIVE subdivide_from(_, _, _, _)
subdivide_from(a, n, k, i) ==
  IF i >= k THEN << >>
  ELSE LET b == a + (n \div k) + (IF i < n % k THEN 1 ELSE 0)
       IN << <<a, b>> >> \o subdivide_from(b, n, k, i + 1)
subdivide(n, k) == subdivide_from(0, n, k, 0)

\* The native library. srhd_1d_primitive_to_conserved and
\* srhd_1d_conserved_to_primitive convert every row of the array; they are
\* inverse to each other on the rows the first produces.
srhd_1d_primitive_to_conserved(primitive) ==
  [k \in DOMAIN primitive |-> [q \in 1..num_cons |-> 2 * primitive[k][q] + q]]

srhd_1d_conserved_to_primitive(conserved) ==
  [k \in DOMAIN conserved |-> [q \in 1..num_cons |-> TDiv(conserved[k][q] - q, 2)]]

\* srhd_1d_advance_rk: the interior rows of the destination from conserved0
\* (weighted rk), conserved1 and the neighbours in primitive1; the guard rows
\* of the destination stay.
srhd_1d_advance_rk(conserved0, primitive1, conserved1, conserved2, rk, dt) ==
  LET n == Size(conserved2)
  IN [k \in DOMAIN conserved2 |->
        IF k >= num_guard /\ k < n - num_guard
        THEN [q \in 1..num_cons |->
                TDiv(rk[1] * conserved0[k][q]
                       + (rk[2] - rk[1])
                           * (conserved1[k][q] + primitive1[k - 1][q] - primitive1[k + 1][q]),
                     rk[2])]
        ELSE conserved2[k]]

\* The conserved buffers of a patch.
ConsBufs == {"c_a", "c_b", "c_c"}

\* Patch.__init__: conserved0 is the buffer primitive_to_conserved returns,
\* conserved1 and conserved2 are copies of it.
Patch(primitive, time) ==
  LET conserved == srhd_1d_primitive_to_conserved(primitive)
  IN [num_zones |-> Size(primitive), time |-> time, time0 |-> time,
      primitive1 |-> primitive,
      bufs |-> [b \in ConsBufs |-> conserved],
      conserved0 |-> "c_a", conserved1 |-> "c_b", conserved2 |-> "c_c"]

\* Solver.__init__: prim = xp.zeros([b - a + 2 * ng, nq]); prim[ng:-ng] =
\* primitive[a:b], for every part of subdivide.
PatchPrimitive(a, b) ==
  [k \in 0..(b - a + 2 * num_guard - 1) |->
     IF k >= num_guard /\ k < b - a + num_guard
     THEN PrimitiveRow(a + k - num_guard)
     ELSE ZeroRow]

SolverPatches(num_zones, num_patches, time) ==
  LET parts == subdivide(num_zones, num_patches)
  IN [k \in 1..Len(parts) |-> Patch(PatchPrimitive(parts[k][1], parts[k][2]), time)]

\* a[lo:hi] with Python's negative indices, as the range <<first, length>>.
Slice(n, lo, hi) ==
  LET l == IF lo < 0 THEN n + lo ELSE lo
      h == IF hi <= 0 THEN n + hi ELSE hi
  IN <<l, h - l>>

\* dst[d] = src[s] for the slices d and s, src read before dst is written.
SliceAssign(dst, d, src, s) ==
  [k \in DOMAIN dst |->
     IF k >= d[1] /\ k < d[1] + d[2] THEN src[s[1] + (k - d[1])] ELSE dst[k]]

\* The slices of set_bc: the guards of a0 and the interior edges they come from.
left_guard(n) == Slice(n, 0, num_guard)
right_guard(n) == Slice(n, -num_guard, 0)
\* right_edge taken from the guards: al[-ng:].
right_edge_guards(n) == Slice(n, -num_guard, 0)
right_edge(n) == Slice(n, -2 * num_guard, -num_guard)
left_edge(n) == Slice(n, num_guard, 2 * num_guard)

set_bc_raises(bc) == bc \notin {"periodic", "outflow"}

\* Solver.set_bc(al, a0, ar, index) on the arrays arrs of the patches, by
\* patch number: al = arrs[l], a0 = arrs[i], ar = arrs[r]. The first
\* assignment is complete when the second reads.
set_bc(arrs, l, i, r, bc) ==
  LET np == Len(arrs)
      n == Size(arrs[i])
      first == IF bc = "outflow" /\ i = 1
               THEN [arrs EXCEPT ![i] = SliceAssign(@, left_guard(n), arrs[i], left_edge(n))]
               ELSE [arrs EXCEPT ![i] = SliceAssign(@, left_guard(n), arrs[l],
                                                    right_edge(Size(arrs[l])))]
  IN IF bc = "outflow" /\ i = np
     THEN [first EXCEPT ![i] = SliceAssign(@, right_guard(n), first[i], right_edge(n))]
     ELSE [first EXCEPT ![i] = SliceAssign(@, right_guard(n), first[r],
                                           left_edge(Size(first[r])))]

\* -------------------------------------------------------------------- state
VARIABLES
  cfg,      \* the driver's options and the shape and profile of the first array
  pc,       \* where the driver is
  exc,      \* the exception that ended the run, "" if none
  sim,      \* the simulation generator the driver selected
  solvers,  \* the attributes of the three registry classes
  heap,     \* the arrays
  p,        \* the buffer the caller (the simulation loop) holds as p
  prd,      \* update_prim's read handle
  pwr,      \* update_prim's write handle
  solver,   \* update_prim's solver
  stage,    \* the index into rks of the next stage
  calls,    \* advances completed
  log,      \* this call's launches and swaps, in order: <<what, rd, wr, rk>>
  p0,       \* the contents of p when this call began
  run,      \* the launch whose workers are running (worker-level steps)
  lo, hi,   \* the workers lo..hi of run have not run yet
  pre,      \* the heap when run was launched
  regq,     \* a registry lookup: <<class, time_integration, reconstruction>>
  regr,     \* its result
  args,     \* run: the parsed command line, [cli, configs]
  app_config,   \* run: the maps of the ChainMap, first looked up first
  driver_args,  \* run: the driver section handed to driver
  srhd      \* the SRHD solver

vars == <<cfg, pc, exc, sim, solvers, heap, p, prd, pwr, solver, stage, calls,
          log, p0, run, lo, hi, pre, regq, regr, args, app_config, driver_args,
          srhd>>
kvars == <<run, lo, hi, pre>>
rvars == <<regq, regr>>
cvars == <<args, app_config, driver_args>>
svars == <<srhd>>
\* The variables of the Euler drivers and the registry.
evars == <<cfg, sim, solvers, heap, p, prd, pwr, solver, stage, calls, log, p0,
           kvars, rvars>>

TimeIntegrations == {"fwd", "rk1", "rk2", "rk3"}
Reconstructions == {"pcm", "plm"}
Fluxings == {"per_zone", "per_face"}
\* Option values the drivers do not know.
BadTimeIntegration == "rk4"
BadReconstruction == "weno"
BadFluxing == "per_cell"

EmptyHeap ==
  [b0 |-> NoArray, b1 |-> NoArray, f |-> NoArray, urk |-> NoArray,
   written |-> {}, oob |-> FALSE, uninit |-> FALSE]

NoLaunch ==
  [kernel |-> "none", cls |-> "", runge_kutta |-> FALSE, plm |-> FALSE,
   rd |-> "", wr |-> "", rk |-> <<0, 1>>, dt |-> 0, dx |-> 0, plm_theta |-> 0,
   ni |-> 0, nj |-> 0]

\* The shapes of the first array: every 1D size up to MaxNi; in 2D one patch
\* without interior and one of (MaxNi - 1) x MaxNi cells.
Shapes(s) ==
  CASE s = "simulation1d" -> {<<n, 0>> : n \in 0..MaxNi}
    [] s = "simulation2d" -> {<<3, 3>>, <<MaxNi - 1, MaxNi>>}
    [] OTHER -> {<<0, 0>>}

Config(dim, fl, rec, ti, shape, prof, steps) ==
  [dim |-> dim, fluxing |-> fl, reconstruction |-> rec, time_integration |-> ti,
   ni |-> shape[1], nj |-> shape[2], profile |-> prof, steps |-> steps]

\* Every option combination in 1D and 2D, known or not; the other values of
\* dim with the default options.
Configs ==
  {Config(d, fl, rec, ti, sh, prof, MaxCalls) :
     d \in {1, 2}, fl \in Fluxings \cup {BadFluxing},
     rec \in Reconstructions \cup {BadReconstruction},
     ti \in TimeIntegrations \cup {BadTimeIntegration},
     sh \in Shapes(select_simulation(1)) \cup Shapes(select_simulation(2)),
     prof \in Profiles}
  \cup
  {Config(d, "per_zone", rec, ti, sh, "shocktube", MaxCalls) :
     d \in -4..3, rec \in {"pcm"}, ti \in {"fwd", "rk2"},
     sh \in UNION {Shapes(select_simulation(e)) : e \in -4..3}}

WellShaped(c) ==
  <<c.ni, c.nj>> \in Shapes(select_simulation(c.dim))

InitCommon ==
  /\ exc = "" /\ sim = "none"
  /\ solvers = [r \in Registries |-> NoAttrs]
  /\ heap = EmptyHeap /\ p = "b0" /\ prd = "b0" /\ pwr = "b0"
  /\ solver = None /\ stage = 1 /\ calls = 0 /\ log = << >> /\ p0 = NoArray
  /\ run = NoLaunch /\ lo = 0 /\ hi = -1 /\ pre = EmptyHeap
  /\ regr = Pending
  /\ app_config = << >> /\ driver_args = NoSection

NoQuery == <<"", "", "">>
NoArgs == [cli |-> << >>, configs |-> << >>]

\* The SRHD solver: the arguments it is constructed with, its attributes, the
\* native calls made so far, the call in progress (rk, dt, the loop index i)
\* and the patches as they were when that call began.
SolverInput(nz, np, bc) == [num_zones |-> nz, num_patches |-> np, boundary_condition |-> bc]
Unbuilt(inp) ==
  [input |-> inp, boundary_condition |-> "", patches |-> << >>, native |-> << >>,
   rk |-> <<0, 1>>, dt |-> 0, i |-> 1, before |-> << >>, ops |-> 0]
NoSolver == Unbuilt(SolverInput(0, 0, ""))

Init ==
  /\ cfg \in {c \in Configs : WellShaped(c)}
  /\ pc = "driver"
  /\ regq = NoQuery
  /\ args = NoArgs /\ srhd = NoSolver
  /\ InitCommon

\* ------------------------------------------------------------------- driver
\* driver: initialise the registries, select the simulation by dim, construct
\* it and take its first State.
driver ==
  /\ pc = "driver"
  /\ solvers' = [r \in Registries |-> init(r)]
  /\ LET s == select_simulation(cfg.dim)
     IN IF s \in {"IndexError", "None"}
        THEN /\ pc' = "error"
             /\ exc' = IF s = "None" THEN "TypeError" ELSE "IndexError"
             /\ UNCHANGED <<sim, heap>>
        ELSE /\ pc' = "loop"
             /\ sim' = s
             /\ heap' = [heap EXCEPT !.b0 = InitialArray(s, cfg)]
             /\ UNCHANGED exc
  /\ UNCHANGED <<cfg, p, prd, pwr, solver, stage, calls, log, p0, kvars, rvars, cvars, svars>>

\* while state.time < tfinal: the loop ends after cfg.steps advances.
driver_exit ==
  /\ pc = "loop" /\ calls >= cfg.steps
  /\ pc' = "done"
  /\ UNCHANGED <<cfg, exc, sim, solvers, heap, p, prd, pwr, solver, stage, calls,
                 log, p0, kvars, rvars, cvars, svars>>

check_time_integration(ti) == ti \in {"fwd", "rk1", "rk2", "rk3"}
check_fluxing(fl) == fl \in {"per_face", "per_zone"}
check_fluxing_2d_absent(fl) == TRUE
check_fluxing_2d(fl) == fl = "per_zone"

\* An exception leaves update_prim: nothing was allocated or launched.
Fail(e) ==
  /\ pc' = "error" /\ exc' = e
  /\ UNCHANGED <<heap, prd, pwr, solver>>

\* What solver.update_prim raises when the registry gave no solver.
LookupError(r) == IF r.tag = "None" THEN "AttributeError" ELSE r.tag

\* The first launch of a call.
FirstStep(ti, fl) ==
  IF ti # "fwd" THEN "prim_to_cons" ELSE IF fl = "per_face" THEN "fluxes" ELSE "update"

\* p = advance(p, dt) in simulation1d: update_prim up to its first launch.
update_prim_call ==
  /\ pc = "loop" /\ sim = "simulation1d" /\ calls < cfg.steps
  /\ p0' = heap[p] /\ log' = << >> /\ stage' = 1
  /\ LET ti == cfg.time_integration
         fl == cfg.fluxing
         r == get(solvers[IF fl = "per_face" THEN "FPFSolvers" ELSE "FPZSolvers"],
                  ti, cfg.reconstruction)
     IN IF ~check_time_integration(ti) THEN Fail("ValueError")
        ELSE IF ~check_fluxing(fl) THEN Fail("ValueError")
        ELSE IF r.tag # "solver" THEN Fail(LookupError(r))
        ELSE /\ solver' = r
             /\ pc' = FirstStep(ti, fl)
             /\ UNCHANGED exc
             /\ IF fl = "per_face"
                THEN /\ prd' = p /\ pwr' = p
                     /\ heap' = [heap EXCEPT !.f = empty_like(heap[p]),
                                             !.urk = NoArray, !.written = {}]
                ELSE /\ prd' = per_zone_buffers(p).prd
                     /\ pwr' = per_zone_buffers(p).pwr
                     /\ heap' = [heap EXCEPT ![per_zone_buffers(p).pwr] = heap[p],
                                             !.f = NoArray, !.urk = NoArray,
                                             !.written = {}]
  /\ UNCHANGED <<cfg, sim, solvers, p, calls, kvars, rvars, cvars, svars>>

\* p = advance(p, dt) in simulation2d: update_prim2d up to its first launch.
update_prim2d_call ==
  /\ pc = "loop" /\ sim = "simulation2d" /\ calls < cfg.steps
  /\ p0' = heap[p] /\ log' = << >> /\ stage' = 1
  /\ LET ti == cfg.time_integration
         r == get(solvers["FPZSolvers2D"], ti, cfg.reconstruction)
     IN IF ~check_time_integration(ti) THEN Fail("ValueError")
        ELSE IF ~check_fluxing_2d(cfg.fluxing) THEN Fail("ValueError")
        ELSE IF r.tag # "solver" THEN Fail(LookupError(r))
        ELSE /\ solver' = r
             /\ pc' = FirstStep(ti, "per_zone")
             /\ UNCHANGED exc
             /\ prd' = per_zone_buffers(p).prd
             /\ pwr' = per_zone_buffers(p).pwr
             /\ heap' = [heap EXCEPT ![per_zone_buffers(p).pwr] = heap[p],
                                     !.f = NoArray, !.urk = NoArray,
                                     !.written = {}]
  /\ UNCHANGED <<cfg, sim, solvers, p, calls, kvars, rvars, cvars, svars>>

InPlace == solver.cls = "FluxPerFaceSolver"

\* A launch of a kernel of solver sol on arrays of the shape of c.
LaunchOf(sol, c, kernel, rd, wr, rk) ==
  [kernel |-> kernel, cls |-> sol.cls, runge_kutta |-> sol.runge_kutta,
   plm |-> sol.plm, rd |-> rd, wr |-> wr, rk |-> rk, dt |-> DT, dx |-> DX,
   plm_theta |-> plm_theta, ni |-> c.ni, nj |-> c.nj]

Launch(kernel, rd, wr, rk) == LaunchOf(solver, cfg, kernel, rd, wr, rk)

Entry(L) == <<L.kernel, L.rd, L.wr, L.rk>>

\* urk = xp.empty_like(prd); prim_to_cons(prd, urk)
UrkLaunch == Launch("prim_to_cons_array", prd, "urk", <<0, 1>>)
UrkHeap == [heap EXCEPT !.urk = empty_like(heap[prd])]
UrkNext == IF InPlace THEN "fluxes" ELSE "update"

\* fluxes(p, f, plm_theta)
FluxLaunch == Launch("compute_godunov_fluxes", p, "f", <<0, 1>>)

\* update(p, f, urk, dt, dx, rk) / update(prd, pwr, urk, dt, dx, rk, plm_theta)
UpdateLaunch == Launch("update_prim", prd, pwr, rks(cfg.time_integration)[stage])
LastStage == stage >= Len(rks(cfg.time_integration))
\* UpdateNext with urk rebuilt in every stage.
UpdateNext_rebuild == IF LastStage THEN "return" ELSE "prim_to_cons"
UpdateNext == IF LastStage THEN "return" ELSE IF InPlace THEN "fluxes" ELSE "update"

\* What follows an update launch: the per-zone driver swaps its handles.
AfterUpdate ==
  /\ pc' = UpdateNext
  /\ stage' = stage + 1
  /\ IF InPlace
     THEN /\ log' = Append(log, Entry(UpdateLaunch))
          /\ UNCHANGED <<prd, pwr>>
     ELSE /\ prd' = swap(prd, pwr).prd
          /\ pwr' = swap(prd, pwr).pwr
          /\ log' = log \o <<Entry(UpdateLaunch),
                             <<"swap", swap(prd, pwr).prd, swap(prd, pwr).pwr, <<0, 1>>>> >>

\* The launch of prim_to_cons_array that builds urk.
build_urk ==
  /\ pc = "prim_to_cons"
  /\ heap' = RunKernel(UrkHeap, UrkLaunch)
  /\ log' = Append(log, Entry(UrkLaunch))
  /\ pc' = UrkNext
  /\ UNCHANGED <<cfg, exc, sim, solvers, p, prd, pwr, solver, stage, calls, p0,
                 kvars, rvars, cvars, svars>>

\* The launch of compute_godunov_fluxes of a per-face stage.
fluxes ==
  /\ pc = "fluxes"
  /\ heap' = RunKernel(heap, FluxLaunch)
  /\ log' = Append(log, Entry(FluxLaunch))
  /\ pc' = "update"
  /\ UNCHANGED <<cfg, exc, sim, solvers, p, prd, pwr, solver, stage, calls, p0,
                 kvars, rvars, cvars, svars>>

\* The launch of update_prim of a stage, and the swap of the per-zone driver.
update ==
  /\ pc = "update"
  /\ heap' = RunKernel(heap, UpdateLaunch)
  /\ AfterUpdate
  /\ UNCHANGED <<cfg, exc, sim, solvers, p, solver, calls, p0, kvars, rvars, cvars, svars>>

\* return p / return prd, and the simulation's p = advance(p, dt).
returned == IF InPlace THEN p ELSE prd

return ==
  /\ pc = "return"
  /\ p' = returned
  /\ calls' = calls + 1
  /\ pc' = "loop"
  /\ UNCHANGED <<cfg, exc, sim, solvers, heap, prd, pwr, solver, stage, log, p0,
                 kvars, rvars, cvars, svars>>

Next ==
  \/ driver
  \/ driver_exit
  \/ update_prim_call
  \/ update_prim2d_call
  \/ build_urk
  \/ fluxes
  \/ update
  \/ return

Spec == Init /\ [][Next]_vars

\* ------------------------------------------------------------ a whole call
\* update_prim / update_prim2d as a function of the array p and the options c
\* (known ones): the array the call returns. The caller's array is b0.
RECURSIVE update_stages(_, _, _, _, _, _)
update_stages(h, sol, c, rd, wr, stages) ==
  IF stages = << >> THEN h[rd]
  ELSE LET in_place == sol.cls = "FluxPerFaceSolver"
           h1 == IF in_place
                 THEN RunKernel(h, LaunchOf(sol, c, "compute_godunov_fluxes", rd, "f",
                                            <<0, 1>>))
                 ELSE h
           h2 == RunKernel(h1, LaunchOf(sol, c, "update_prim", rd, wr, Head(stages)))
           sw == IF in_place THEN [prd |-> rd, pwr |-> wr] ELSE swap(rd, wr)
       IN update_stages(h2, sol, c, sw.prd, sw.pwr, Tail(stages))

update_prim_result(a, c, two_d) ==
  LET reg == IF two_d THEN "FPZSolvers2D"
             ELSE IF c.fluxing = "per_face" THEN "FPFSolvers" ELSE "FPZSolvers"
      sol == get(init(reg), c.time_integration, c.reconstruction)
      in_place == sol.cls = "FluxPerFaceSolver"
      bufs == per_zone_buffers("b0")
      h0 == IF in_place
            THEN [EmptyHeap EXCEPT !.b0 = a, !.f = empty_like(a)]
            ELSE [EmptyHeap EXCEPT ![bufs.prd] = a, ![bufs.pwr] = a]
      h1 == IF c.time_integration = "fwd" THEN h0
            ELSE RunKernel([h0 EXCEPT !.urk = empty_like(a)],
                           LaunchOf(sol, c, "prim_to_cons_array", "b0", "urk", <<0, 1>>))
  IN update_stages(h1, sol, c, "b0", IF in_place THEN "b0" ELSE bufs.pwr,
                   rks(c.time_integration))

\* ------------------------------------------------------ worker-level steps
\* The same drivers with every launch run worker by worker: the workers of a
\* launch are taken from either end of those left, so that the ascending and
\* the descending order and their mixtures are all schedules. One advance of
\* every known option combination on the largest arrays.
KernelConfigs ==
  {Config(d, fl, rec, ti, sh, prof, 1) :
     d \in {1, 2}, fl \in Fluxings, rec \in Reconstructions, ti \in TimeIntegrations,
     sh \in {<<MaxNi - 1, 0>>, <<MaxNi, 0>>, <<MaxNi - 1, MaxNi>>},
     prof \in {"shocktube", "ramp"}}

InitKernel ==
  /\ cfg \in {c \in KernelConfigs :
                /\ WellShaped(c)
                /\ c.dim = 2 => c.fluxing = "per_zone"}
  /\ pc = "driver"
  /\ regq = NoQuery
  /\ args = NoArgs /\ srhd = NoSolver
  /\ InitCommon

Launching == pc \in {"prim_to_cons", "fluxes", "update"}

CurrentLaunch ==
  CASE pc = "prim_to_cons" -> UrkLaunch
    [] pc = "fluxes" -> FluxLaunch
    [] OTHER -> UpdateLaunch

\* The driver launches its next kernel.
launch ==
  /\ Launching /\ run = NoLaunch
  /\ run' = CurrentLaunch
  /\ heap' = IF pc = "prim_to_cons" THEN UrkHeap ELSE heap
  /\ pre' = IF pc = "prim_to_cons" THEN UrkHeap ELSE heap
  /\ lo' = 0
  /\ hi' = NumWorkers(CurrentLaunch) - 1
  /\ UNCHANGED <<cfg, pc, exc, sim, solvers, p, prd, pwr, solver, stage, calls,
                 log, p0, rvars, cvars, svars>>

\* The first of the workers left runs.
worker_first ==
  /\ run # NoLaunch /\ lo <= hi
  /\ heap' = Worker(heap, run, lo)
  /\ lo' = lo + 1
  /\ UNCHANGED <<cfg, pc, exc, sim, solvers, p, prd, pwr, solver, stage, calls,
                 log, p0, run, hi, pre, rvars, cvars, svars>>

\* The last of the workers left runs.
worker_last ==
  /\ run # NoLaunch /\ lo <= hi
  /\ heap' = Worker(heap, run, hi)
  /\ hi' = hi - 1
  /\ UNCHANGED <<cfg, pc, exc, sim, solvers, p, prd, pwr, solver, stage, calls,
                 log, p0, run, lo, pre, rvars, cvars, svars>>

\* The driver sees the launch complete and goes on.
sync ==
  /\ run # NoLaunch /\ lo > hi
  /\ run' = NoLaunch
  /\ IF pc = "update"
     THEN AfterUpdate
     ELSE /\ log' = Append(log, Entry(run))
          /\ pc' = IF pc = "prim_to_cons" THEN UrkNext ELSE "update"
          /\ UNCHANGED <<prd, pwr, stage>>
  /\ UNCHANGED <<cfg, exc, sim, solvers, heap, p, solver, calls, p0, lo, hi, pre,
                 rvars, cvars, svars>>

NextKernel ==
  \/ driver
  \/ driver_exit
  \/ update_prim_call
  \/ update_prim2d_call
  \/ launch
  \/ worker_first
  \/ worker_last
  \/ sync
  \/ return

SpecKernel == InitKernel /\ [][NextKernel]_vars

\* ---------------------------------------------------------- registry lookups
\* SolverClass.get as a caller may use it: on any of the three classes, after
\* their init(), with any pair of option values.
Queries ==
  Registries \X (TimeIntegrations \cup {BadTimeIntegration, "FWD"})
             \X (Reconstructions \cup {BadReconstruction, "PLM"})

InitRegistry ==
  /\ cfg = Config(1, "per_zone", "pcm", "fwd", <<0, 0>>, "shocktube", 0)
  /\ pc = "registry"
  /\ regq \in Queries
  /\ args = NoArgs /\ srhd = NoSolver
  /\ InitCommon

\* FPZSolvers.init(); FPFSolvers.init(); FPZSolvers2D.init()
registry_init ==
  /\ pc = "registry"
  /\ solvers' = [r \in Registries |-> init(r)]
  /\ pc' = "lookup"
  /\ UNCHANGED <<cfg, exc, sim, heap, p, prd, pwr, solver, stage, calls, log, p0,
                 kvars, rvars, cvars, svars>>

\* cls.get(time_integration, reconstruction)
registry_get ==
  /\ pc = "lookup"
  /\ regr' = get(solvers[regq[1]], regq[2], regq[3])
  /\ pc' = "looked_up"
  /\ UNCHANGED <<cfg, exc, sim, solvers, heap, p, prd, pwr, solver, stage, calls,
                 log, p0, kvars, regq, cvars, svars>>

NextRegistry ==
  \/ registry_init
  \/ registry_get

SpecRegistry == InitRegistry /\ [][NextRegistry]_vars

\* ----------------------------------------------------------------------- run
\* run(args): the command line gives --driver.resolution and --driver.fluxing
\* or leaves them None, and names up to MaxConfigs configuration files.
File(ext, content) == [ext |-> ext, content |-> content]
Section(name, items) == <<name, Mapping(items)>>

ConfigFiles ==
  {File("json", <<Section(s_driver, << <<s_resolution, Scalar("100")>> >>)>>),
   File("yaml", <<Section(s_driver, << <<s_resolution, Scalar("500")>> >>)>>),
   File("json", <<Section(s_driver, << <<s_fluxing, Scalar("per_zone")>>,
                                       <<s_dim, Scalar("2")>> >>),
                  Section(s_mesh, << <<s_resolution, Scalar("64")>> >>),
                  <<s_seed, Scalar("1")>> >>),
   File("yaml", <<Section(s_driver, << <<s_resolution, Null>> >>)>>),
   File("json", <<Section(s_driver, << <<s_resolution, Scalar("100")>> >>),
                  Section(s_drivers, << <<s_resolution, Scalar("7")>> >>)>>),
   File("json", <<Section(s_driver, << <<s_bogus, Scalar("1")>> >>)>>),
   File("toml", << >>)}

ConfigLists == UNION {[1..n -> ConfigFiles] : n \in 0..MaxConfigs}

\* vars(args): configs and one entry per driver option, None when not given.
CommandLines ==
  {<< <<s_configs, Scalar("")>>,
      <<s_driver \o <<Dot>> \o s_resolution, r>>,
      <<s_driver \o <<Dot>> \o s_fluxing, f>> >> :
     r \in {Null, Scalar("9")}, f \in {Null, Scalar("per_face")}}

InitRun ==
  /\ cfg = Config(1, "per_zone", "pcm", "fwd", <<0, 0>>, "shocktube", 0)
  /\ pc = "run"
  /\ regq = NoQuery
  /\ args \in {[cli |-> c, configs |-> l] : c \in CommandLines, l \in ConfigLists}
  /\ srhd = NoSolver
  /\ InitCommon

Reversed(q) == [i \in 1..Len(q) |-> q[Len(q) + 1 - i]]

\* app_config = ChainMap({the given options}); app_config.maps.extend(...)
run_load ==
  /\ pc = "run"
  /\ IF \E i \in 1..Len(args.configs) : load_config_raises(args.configs[i])
     THEN pc' = "error" /\ exc' = "ValueError" /\ UNCHANGED app_config
     ELSE /\ app_config' =
               <<SelectSeq(args.cli, LAMBDA it : ~it[2].null /\ HasChar(it[1], Dot))>>
               \o [i \in 1..Len(args.configs) |->
                     flatten_dict(load_config(Reversed(args.configs)[i]), << >>)]
          /\ pc' = "section" /\ UNCHANGED exc
  /\ UNCHANGED <<evars, args, driver_args, svars>>

\* driver_args = dict_section(app_config, "driver")
run_section ==
  /\ pc = "section"
  /\ driver_args' = dict_section(ChainMap_items(app_config), s_driver)
  /\ IF driver_args'.raised # ""
     THEN pc' = "error" /\ exc' = driver_args'.raised
     ELSE pc' = "validate" /\ UNCHANGED exc
  /\ UNCHANGED <<evars, args, app_config, svars>>

\* driver.schema.validate(**driver_args), then driver(app_config, **driver_args)
run_validate ==
  /\ pc = "validate"
  /\ IF validate(driver_args.items)
     THEN pc' = "call_driver" /\ UNCHANGED exc
     ELSE pc' = "error" /\ exc' = "InvalidConfiguration"
  /\ UNCHANGED <<evars, cvars, svars>>

NextRun ==
  \/ run_load
  \/ run_section
  \/ run_validate

SpecRun == InitRun /\ [][NextRun]_vars

\* --------------------------------------------------------------- SRHD solver
\* A Solver on 2..MaxZones zones in 1..MaxPatches patches, with a boundary
\* condition the solver knows or not, and at most MaxOps calls of
\* advance_rk(rk, dt) and new_timestep in any order.
BoundaryConditions == {"periodic", "outflow"}
BadBoundaryCondition == "reflecting"
RkParams == {<<0, 1>>, <<3, 4>>, <<1, 3>>}
\* dt, in units in which the stage times are whole numbers.
SrhdDt == 12

InitSrhd ==
  /\ cfg = Config(1, "per_zone", "pcm", "fwd", <<0, 0>>, "shocktube", 0)
  /\ pc = "srhd_new"
  /\ regq = NoQuery
  /\ args = NoArgs
  /\ srhd \in {Unbuilt(SolverInput(nz, np, bc)) :
                 nz \in 2..MaxZones, np \in 1..MaxPatches,
                 bc \in BoundaryConditions \cup {BadBoundaryCondition}}
  /\ InitCommon

\* A native call, as the library sees it.
NativeCall(fn, patch, time, bufs) == [fn |-> fn, patch |-> patch, time |-> time, bufs |-> bufs]

\* Solver.__init__
Solver_init ==
  /\ pc = "srhd_new"
  /\ LET inp == srhd.input
         ps == SolverPatches(inp.num_zones, inp.num_patches, 0)
     IN srhd' = [srhd EXCEPT
                   !.boundary_condition = inp.boundary_condition,
                   !.patches = ps,
                   !.native = [k \in 1..Len(ps) |->
                                 NativeCall("srhd_1d_primitive_to_conserved", k, 0,
                                            <<"c_a">>)]]
  /\ pc' = "srhd_idle"
  /\ UNCHANGED <<evars, cvars, exc>>

\* Solver.advance_rk(rk_param, dt) is called.
Solver_advance_rk ==
  /\ pc = "srhd_idle" /\ srhd.ops < MaxOps
  /\ \E rk \in RkParams :
       srhd' = [srhd EXCEPT !.rk = rk, !.dt = SrhdDt, !.i = 1,
                            !.before = srhd.patches, !.ops = @ + 1]
  /\ pc' = "set_bc"
  /\ UNCHANGED <<evars, cvars, exc>>

Primitive1(ps) == [k \in 1..Len(ps) |-> ps[k].primitive1]
Conserved1(ps) == [k \in 1..Len(ps) |-> ps[k].bufs[ps[k].conserved1]]

\* One turn of the first loop of Solver.advance_rk: set_bc on primitive1 and on
\* conserved1 of patch i and its neighbours.
set_bc_patch ==
  /\ pc = "set_bc"
  /\ LET ps == srhd.patches
         np == Len(ps)
         i == srhd.i
         l == ((i - 1 + np - 1) % np) + 1
         r == ((i - 1 + np + 1) % np) + 1
         bc == srhd.boundary_condition
         prim == set_bc(Primitive1(ps), l, i, r, bc)
         cons == set_bc(Conserved1(ps), l, i, r, bc)
     IN IF set_bc_raises(bc)
        THEN pc' = "error" /\ exc' = "ValueError" /\ UNCHANGED srhd
        ELSE /\ srhd' = [srhd EXCEPT
                           !.patches[i].primitive1 = prim[i],
                           !.patches[i].bufs[ps[i].conserved1] = cons[i],
                           !.i = IF i = np THEN 1 ELSE i + 1]
             /\ pc' = IF i = np THEN "patch_advance" ELSE "set_bc"
             /\ UNCHANGED exc
  /\ UNCHANGED <<evars, cvars>>

\* The stage time of Patch.advance_rk, accumulated from the time of the stage
\* before instead of time0.
stage_time_accumulated(time0, time, rk, dt) ==
  TDiv(time * rk[1] + (time + dt) * (rk[2] - rk[1]), rk[2])

\* self.time0 * rk_param + (self.time0 + dt) * (1.0 - rk_param)
stage_time(time0, time, rk, dt) ==
  TDiv(time0 * rk[1] + (time0 + dt) * (rk[2] - rk[1]), rk[2])

\* Patch.advance_rk without its swap.
Patch_swap_forgotten(c1, c2) == [conserved1 |-> c1, conserved2 |-> c2]

\* self.conserved1, self.conserved2 = self.conserved2, self.conserved1
Patch_swap(c1, c2) == [conserved1 |-> c2, conserved2 |-> c1]

\* Patch.advance_rk(rk_param, dt): recompute_primitive, the native advance,
\* the stage time and the swap.
Patch_advance_rk(pt, rk, dt) ==
  LET primitive1 == srhd_1d_conserved_to_primitive(pt.bufs[pt.conserved1])
      written == srhd_1d_advance_rk(pt.bufs[pt.conserved0], primitive1,
                                    pt.bufs[pt.conserved1], pt.bufs[pt.conserved2],
                                    rk, dt)
      sw == Patch_swap(pt.conserved1, pt.conserved2)
  IN [pt EXCEPT !.primitive1 = primitive1,
                !.bufs[pt.conserved2] = written,
                !.time = stage_time(pt.time0, pt.time, rk, dt),
                !.conserved1 = sw.conserved1,
                !.conserved2 = sw.conserved2]

\* One turn of the second loop of Solver.advance_rk.
patch_advance ==
  /\ pc = "patch_advance"
  /\ LET i == srhd.i
         pt == srhd.patches[i]
     IN /\ srhd' = [srhd EXCEPT
                      !.patches[i] = Patch_advance_rk(pt, srhd.rk, srhd.dt),
                      !.native = @ \o
                        <<NativeCall("srhd_1d_conserved_to_primitive", i, pt.time,
                                     <<pt.conserved1>>),
                          NativeCall("srhd_1d_advance_rk", i, pt.time,
                                     <<pt.conserved0, pt.conserved1, pt.conserved2>>)>>,
                      !.i = IF i = Len(srhd.patches) THEN 1 ELSE i + 1]
        /\ pc' = IF i = Len(srhd.patches) THEN "srhd_idle" ELSE "patch_advance"
  /\ UNCHANGED <<evars, cvars, exc>>

\* Patch.new_timestep with conserved0 made an alias of conserved1.
Patch_new_timestep_aliased(pt) ==
  [pt EXCEPT !.time0 = pt.time, !.conserved0 = pt.conserved1]

\* Patch.new_timestep: self.time0 = self.time; conserved0[...] = conserved1[...]
Patch_new_timestep(pt) ==
  [pt EXCEPT !.time0 = pt.time, !.bufs[pt.conserved0] = pt.bufs[pt.conserved1]]

\* Solver.new_timestep
Solver_new_timestep ==
  /\ pc = "srhd_idle" /\ srhd.ops < MaxOps
  /\ srhd' = [srhd EXCEPT
                !.patches = [k \in 1..Len(srhd.patches) |->
                               Patch_new_timestep(srhd.patches[k])],
                !.before = srhd.patches, !.ops = @ + 1]
  /\ UNCHANGED <<evars, cvars, pc, exc>>

NextSrhd ==
  \/ Solver_init
  \/ Solver_advance_rk
  \/ set_bc_patch
  \/ patch_advance
  \/ Solver_new_timestep

SpecSrhd == InitSrhd /\ [][NextSrhd]_vars

\* ------------------------------------------------------------------- claims
InCall == pc \in {"prim_to_cons", "fluxes", "update", "return"}
PerZoneCall == InCall /\ ~InPlace

\* The update launches of this call's log, in order.
UpdateEntries == SelectSeq(log, LAMBDA e : e[1] = "update_prim")
HasUpdated == Len(UpdateEntries) > 0
LastUpdate == UpdateEntries[Len(UpdateEntries)]

\* C1: in the per-zone drivers (update_prim with per_zone, update_prim2d), at
\* every update launch the read and the write buffer are two distinct buffers
\* of equal shape, the first stage reads the caller's p and every later stage
\* reads the buffer the stage before it wrote, and the buffer returned is the
\* one the last stage wrote.
C1_BufferProtocol ==
  PerZoneCall =>
    /\ pc = "update" =>
         /\ prd # pwr
         /\ DOMAIN heap[prd] = DOMAIN heap[pwr]
         /\ prd = IF HasUpdated THEN LastUpdate[3] ELSE p
    /\ \A k \in 1..Len(UpdateEntries) : UpdateEntries[k][2] # UpdateEntries[k][3]
    /\ pc = "return" => HasUpdated /\ returned = LastUpdate[3]

C1_Witness ==
  /\ PerZoneCall /\ pc = "return"
  /\ cfg.time_integration = "rk3" /\ Len(UpdateEntries) = 3
  /\ cfg.ni >= 5 /\ heap[returned] # p0

\* C2 as claimed: no kernel of a call stores into the caller's array p, which
\* keeps the contents it had when the call began.
C2_CallerArrayUntouched ==
  InCall =>
    /\ \A k \in 1..Len(log) : log[k][1] # "swap" => log[k][3] # p
    /\ heap[p] = p0

\* C2, amended: f, urk and the second primitive buffer are the call's own, but
\* the caller's p is the other primitive buffer: a per-face update stores into
\* p in every stage, a per-zone update in the even stages and in no other;
\* after a per-zone fwd or rk1 call p holds what it held before.
C2_CallerArrayWrites ==
  InCall =>
    /\ \A k \in 1..Len(log) :
         log[k][1] \in {"prim_to_cons_array", "compute_godunov_fluxes"} =>
           log[k][3] \in {"f", "urk"}
    /\ \A k \in 1..Len(UpdateEntries) :
         (UpdateEntries[k][3] = p) <=> (InPlace \/ k % 2 = 0)
    /\ (~InPlace /\ cfg.time_integration \in {"fwd", "rk1"}) => heap[p] = p0

C2_Witness ==
  /\ PerZoneCall /\ pc = "return" /\ cfg.time_integration = "rk2"
  /\ Len(UpdateEntries) = 2 /\ UpdateEntries[2][3] = p /\ heap[p] # p0

\* The cells an update kernel works on: [2, ni-2), in 2D times [2, nj-2).
Interior ==
  IF sim = "simulation2d"
  THEN (2..(cfg.ni - 3)) \X (2..(cfg.nj - 3))
  ELSE 2..(cfg.ni - 3)

\* C3: under rk1, rk2 and rk3 urk is built once, before the first stage, from
\* the primitive state the step began with, and no later kernel changes it: at
\* every stage urk[i] = prim_to_cons(p0[i]) on every interior cell, also when
\* the per-face path has overwritten p.
C3_UrkFrozen ==
  (InCall /\ pc # "prim_to_cons" /\ cfg.time_integration # "fwd") =>
    /\ \A c \in Interior : heap.urk[c] = prim_to_cons(p0[c])
    /\ log[1][1] = "prim_to_cons_array"
    /\ \A k \in 2..Len(log) : log[k][1] # "prim_to_cons_array" /\ log[k][3] # "urk"

C3_Witness ==
  /\ pc = "update" /\ InPlace /\ cfg.time_integration = "rk3" /\ stage = 3
  /\ Interior # {} /\ \E c \in Interior : heap[p][c] # p0[c]

\* The launches the claim expects of a 1D call, as <<what, rk>>.
ExpectedCoefficients(ti) ==
  CASE ti = "rk2" -> << <<0, 1>>, <<1, 2>> >>
    [] ti = "rk3" -> << <<0, 1>>, <<3, 4>>, <<1, 3>> >>
    [] OTHER -> << <<0, 1>> >>

RECURSIVE ExpectedStages(_, _)
ExpectedStages(fl, cs) ==
  IF cs = << >> THEN << >>
  ELSE (IF fl = "per_face"
        THEN << <<"compute_godunov_fluxes", <<0, 1>>>>, <<"update_prim", Head(cs)>> >>
        ELSE << <<"update_prim", Head(cs)>>, <<"swap", <<0, 1>>>> >>)
       \o ExpectedStages(fl, Tail(cs))

ExpectedOrder ==
  (IF cfg.time_integration = "fwd" THEN << >>
   ELSE << <<"prim_to_cons_array", <<0, 1>>>> >>)
  \o ExpectedStages(cfg.fluxing, ExpectedCoefficients(cfg.time_integration))

Order == [k \in 1..Len(log) |-> <<log[k][1], log[k][4]>>]
IsPrefix(a, b) == Len(a) <= Len(b) /\ \A k \in 1..Len(a) : a[k] = b[k]

\* C4: a call of update_prim launches in a fixed order: prim_to_cons_array
\* (rk1, rk2, rk3 only), then per stage the flux kernel (per_face), the update
\* kernel and the swap (per_zone), with the coefficients fwd and rk1: 0;
\* rk2: 0, 1/2; rk3: 0, 3/4, 1/3; and a per-face update finds in f the fluxes
\* of the primitive state it is about to modify.
C4_LaunchOrder ==
  (InCall /\ sim = "simulation1d") =>
    /\ IsPrefix(Order, ExpectedOrder)
    /\ pc = "return" => Order = ExpectedOrder
    /\ (pc = "update" /\ InPlace) =>
         heap.f = RunKernel([heap EXCEPT !.f = empty_like(heap[p])], FluxLaunch).f

C4_Witness ==
  /\ pc = "return" /\ InPlace /\ cfg.time_integration = "rk3" /\ Len(log) = 7
  /\ cfg.ni >= 5 /\ heap[p] # p0

\* C5 as claimed: get raises for every pair with an unknown time_integration
\* or reconstruction and never returns None; for a known pair it returns the
\* solver with runge_kutta = (time_integration # fwd), plm = (reconstruction = plm).
C5_RegistryRejectsUnknown ==
  pc = "looked_up" =>
    IF regq[2] \in TimeIntegrations /\ regq[3] \in Reconstructions
    THEN regr = Solver(KernelClass(regq[1]), regq[2] # "fwd", regq[3] = "plm")
    ELSE regr.tag \notin {"solver", "None", "pending"}

Unsupported ==
  \/ cfg.time_integration \notin TimeIntegrations
  \/ cfg.reconstruction \notin Reconstructions
  \/ sim = "simulation1d" /\ cfg.fluxing \notin Fluxings
  \/ sim = "simulation2d" /\ cfg.fluxing # "per_zone"

\* C6: update_prim and update_prim2d with an unsupported time_integration,
\* reconstruction or fluxing (2D: any fluxing but per_zone) raise before any
\* kernel is launched and leave the array p as it was.
C6_RejectsBeforeLaunch ==
  (sim # "none" /\ Unsupported) =>
    /\ pc \in {"loop", "error"}
    /\ calls = 0 /\ log = << >>
    /\ heap[p] = InitialArray(sim, cfg)
    /\ pc = "error" => exc \in {"ValueError", "AttributeError"} /\ heap[p] = p0

C6_Witness ==
  /\ pc = "error" /\ exc = "ValueError" /\ sim = "simulation2d"
  /\ cfg.fluxing = "per_face" /\ cfg.time_integration = "rk2"
  /\ cfg.reconstruction = "plm" /\ Interior # {}

\* C7 as claimed: every dim outside {1, 2} ends the driver with an error and no
\* simulation constructed or advanced; 1 selects simulation1d, 2 simulation2d.
C7_DimChecked ==
  /\ cfg.dim \notin {1, 2} => pc \in {"driver", "error"} /\ sim = "none" /\ calls = 0
  /\ (cfg.dim = 1 /\ pc # "driver") => sim = "simulation1d"
  /\ (cfg.dim = 2 /\ pc # "driver") => sim = "simulation2d"

\* C8: in every launch no two workers store to the same slot and no worker
\* loads a slot another worker of the launch stores to, and the launch leaves
\* the heap the ascending order leaves, whatever order the workers ran in.
C8_RaceFree ==
  run # NoLaunch =>
    /\ \A w1, w2 \in 0..(NumWorkers(run) - 1) :
         w1 # w2 => /\ Writes(run, w1) # Writes(run, w2)
                    /\ Writes(run, w1) \notin Reads(run, w2)
    /\ lo > hi => heap = RunKernel(pre, run)

C8_Witness ==
  /\ run.kernel = "update_prim" /\ run.cls = "FluxPerFaceSolver" /\ run.plm
  /\ run.rk = <<1, 3>> /\ NumWorkers(run) >= 2 /\ lo > hi /\ heap # pre

\* C9: every slot a worker loads or stores lies inside its array, the flux
\* kernel works on [1, ni-2) and the update kernels on [2, ni-2), and every
\* slot of f and urk a worker loads was stored by an earlier launch of the call.
C9_InBounds ==
  /\ ~heap.oob /\ ~heap.uninit
  /\ Launching =>
       LET L == CurrentLaunch
           h == IF pc = "prim_to_cons" THEN UrkHeap ELSE heap
           W == 0..(NumWorkers(L) - 1)
       IN /\ \A w \in W :
               /\ InArray(h, Writes(L, w))
               /\ \A s \in Reads(L, w) :
                    InArray(h, s) /\ (s[1] \notin PrimBufs => s \in h.written)
          /\ pc = "fluxes" => {WorkerCell(L, w) : w \in W} = 1..(cfg.ni - 3)
          /\ pc = "update" => {WorkerCell(L, w) : w \in W} = Interior

C9_Witness ==
  /\ pc = "update" /\ InPlace /\ solver.plm /\ solver.runge_kutta /\ stage = 2
  /\ cfg.ni = MaxNi /\ Cardinality(heap.written) >= 2 * (MaxNi - 3)

IsUniform(a, sm) ==
  \A c \in DOMAIN a : a[c] = UniformState(IF sm = "simulation1d" THEN 1 ELSE 2)

OneStageCall ==
  /\ pc = "return" /\ sim = "simulation1d" /\ ~InPlace
  /\ cfg.time_integration \in {"fwd", "rk1"}
DoneLaunch == Launch("update_prim", LastUpdate[2], LastUpdate[3], LastUpdate[4])
Loaded(L, i) ==
  [s \in FluxPerZoneSolver_update_prim_reads(L, i) |-> LoadSlot(heap, s)]

RECURSIVE Mass(_, _)
Mass(a, cells) ==
  IF cells = {} THEN 0
  ELSE LET c == CHOOSE x \in cells : TRUE IN a[c][1] + Mass(a, cells \ {c})

\* C11: in the 1D per-zone update without blending, PCM and PLM, cell i takes
\* for its right face the face states and the flux that cell i+1 takes for its
\* left face, every cell's mass falls by (fp - fm) dt / dx, and so the mass of
\* the interior [2, ni-2) changes by (F at its left boundary face - F at its
\* right boundary face) dt / dx, to the rounding of one division per cell.
C11_Conservation ==
  OneStageCall =>
    LET L == DoneLaunch
        F(i) == FluxPerZoneSolver_fluxes(Loaded(L, i), L, i)
        S(i) == FluxPerZoneSolver_faces(Loaded(L, i), L, i)
        first == 2
        last == cfg.ni - 3
        n == Cardinality(Interior)
        change == Mass(heap[L.wr], Interior) - Mass(p0, Interior)
    IN /\ heap[L.rd] = p0
       /\ \A i \in Interior :
            /\ (i + 1) \in Interior =>
                 /\ S(i).pcp = S(i + 1).plp /\ S(i).prm = S(i + 1).pcm
                 /\ F(i).fp = F(i + 1).fm
            /\ heap[L.wr][i][1] = p0[i][1] - TDiv((F(i).fp[1] - F(i).fm[1]) * DT, DX)
       /\ n > 0 =>
            /\ DX * change - DT * (F(first).fm[1] - F(last).fp[1]) < DX * n
            /\ DT * (F(first).fm[1] - F(last).fp[1]) - DX * change < DX * n

C11_Witness ==
  /\ OneStageCall /\ cfg.time_integration = "fwd" /\ solver.plm
  /\ cfg.profile = "step" /\ Cardinality(Interior) >= 2
  /\ Mass(heap[LastUpdate[3]], Interior) # Mass(p0, Interior)
  /\ \E i \in Interior :
       LET F == FluxPerZoneSolver_fluxes(Loaded(DoneLaunch, i), DoneLaunch, i)
       IN F.fp # F.fm /\ F.fm[1] # 0

\* The value a configuration file gives a driver key, if it defines the key.
Defines(file, k) ==
  \E i \in 1..Len(file.content) :
    /\ file.content[i][1] = s_driver /\ file.content[i][2].map
    /\ Has(file.content[i][2].items, k)
Defined(file, k) == Lookup(Lookup(file.content, s_driver).items, k)
CliKey(k) == s_driver \o <<Dot>> \o k
CliGiven(k) == Has(args.cli, CliKey(k)) /\ ~Lookup(args.cli, CliKey(k)).null

\* C12 as claimed: every driver key resolves to its non-null command-line
\* value if one was given, else to the value of the last configuration file
\* that defines it, and is absent from the driver section if no source
\* defines it.
C12_Precedence ==
  pc \in {"validate", "call_driver"} =>
    /\ driver_args.raised = ""
    /\ \A k \in DriverKeys :
         LET n == Len(args.configs)
             D == {i \in 1..n : Defines(args.configs[i], k)}
             last == CHOOSE i \in D : \A j \in D : j <= i
         IN IF CliGiven(k)
            THEN /\ Has(driver_args.items, k)
                 /\ Lookup(driver_args.items, k) = Lookup(args.cli, CliKey(k))
            ELSE IF D # {}
            THEN /\ Has(driver_args.items, k)
                 /\ Lookup(driver_args.items, k) = Defined(args.configs[last], k)
            ELSE ~Has(driver_args.items, k)

\* The exchange of a Solver.advance_rk call is complete and no patch has
\* advanced yet.
Exchanged == pc = "patch_advance" /\ srhd.i = 1
InteriorZones(pt) == pt.num_zones - 2 * num_guard
WideEnough == \A k \in 1..Len(srhd.patches) : InteriorZones(srhd.patches[k]) >= num_guard
LeftOf(k, np) == ((k - 1 + np - 1) % np) + 1
RightOf(k, np) == ((k - 1 + np + 1) % np) + 1
HasLeft(k) == srhd.boundary_condition = "periodic" \/ k # 1
HasRight(k) == srhd.boundary_condition = "periodic" \/ k # Len(srhd.patches)

\* The exchange with the patches visited in a given order.
RECURSIVE ExchangeIn(_, _, _)
ExchangeIn(order, arrs, bc) ==
  IF order = << >> THEN arrs
  ELSE LET i == Head(order)
           np == Len(arrs)
       IN ExchangeIn(Tail(order), [arrs EXCEPT
            ![i] = set_bc(arrs, LeftOf(i, np), i, RightOf(i, np), bc)[i]], bc)
Orders(np) == {o \in [1..np -> 1..np] : \A a, b \in 1..np : a # b => o[a] # o[b]}

\* C13: after the exchange of a call, with every patch at least num_guard
\* interior zones wide, the guards a patch has on a side with a neighbour hold,
\* in primitive1 and in conserved1, the num_guard interior rows of the
\* neighbour next to the shared boundary as they were before the exchange; no
\* interior row has changed; and every order of visiting the patches gives the
\* same arrays.
C13_Exchange ==
  (Exchanged /\ WideEnough) =>
    LET ps == srhd.patches
        old == srhd.before
        np == Len(ps)
        Same(A, B) ==
          \A k \in 1..np :
            LET n == Size(A[k])
                nl == Size(B[LeftOf(k, np)])
            IN /\ HasLeft(k) =>
                    \A g \in 0..(num_guard - 1) :
                      A[k][g] = B[LeftOf(k, np)][nl - 2 * num_guard + g]
               /\ HasRight(k) =>
                    \A g \in 0..(num_guard - 1) :
                      A[k][n - num_guard + g] = B[RightOf(k, np)][num_guard + g]
               /\ \A j \in num_guard..(n - num_guard - 1) : A[k][j] = B[k][j]
    IN /\ Same(Primitive1(ps), Primitive1(old))
       /\ Same(Conserved1(ps), Conserved1(old))
       /\ \A o \in Orders(np) :
            /\ ExchangeIn(o, Primitive1(old), srhd.boundary_condition) = Primitive1(ps)
            /\ ExchangeIn(o, Conserved1(old), srhd.boundary_condition) = Conserved1(ps)

C13_Witness ==
  /\ Exchanged /\ WideEnough /\ srhd.boundary_condition = "periodic"
  /\ Len(srhd.patches) = 3 /\ srhd.ops >= 2
  /\ Conserved1(srhd.patches)[1][0] # Conserved1(srhd.before)[1][0]
  /\ Conserved1(srhd.patches)[1][0] = Conserved1(srhd.before)[3][2]
  /\ Conserved1(srhd.before)[3][2] # srhd_1d_primitive_to_conserved(PatchPrimitive(4, 6))[2]

\* C14 as claimed: under outflow, after the exchange every left guard row of
\* the first patch equals its first interior row a0[ng] and every right guard
\* row of the last patch equals its last interior row a0[-ng-1], in primitive1
\* and in conserved1.
C14_ZeroGradient ==
  (Exchanged /\ srhd.boundary_condition = "outflow") =>
    LET ps == srhd.patches
        np == Len(ps)
        Flat(A) ==
          /\ \A g \in 0..(num_guard - 1) : A[1][g] = A[1][num_guard]
          /\ \A g \in 0..(num_guard - 1) :
               A[np][Size(A[np]) - num_guard + g] = A[np][Size(A[np]) - num_guard - 1]
    IN Flat(Primitive1(ps)) /\ Flat(Conserved1(ps))

\* C15 as claimed: a Solver with a boundary_condition other than periodic and
\* outflow fails before any native entry point has been called, construction
\* included, and when advance_rk raises no patch has advanced and no buffer
\* of any patch has changed.
C15_RejectsBeforeNative ==
  srhd.input.boundary_condition \notin BoundaryConditions =>
    /\ srhd.native = << >>
    /\ pc \in {"srhd_new", "error"}
    /\ pc = "error" => exc = "ValueError" /\ srhd.patches = srhd.before

\* The native advance calls made for patch k so far.
AdvanceCalls(k) ==
  SelectSeq(srhd.native, LAMBDA e : e.fn = "srhd_1d_advance_rk" /\ e.patch = k)
Frozen(pt) == pt.bufs[pt.conserved0]

\* What the handles of a patch satisfy at every moment.
C16_Handles ==
  \A k \in 1..Len(srhd.patches) :
    LET pt == srhd.patches[k]
        calls_k == AdvanceCalls(k)
    IN /\ Cardinality({pt.conserved0, pt.conserved1, pt.conserved2}) = 3
       /\ \A j \in 1..Len(calls_k) :
            /\ calls_k[j].bufs[1] = pt.conserved0
            /\ j > 1 => /\ calls_k[j].bufs[2] = calls_k[j - 1].bufs[3]
                        /\ calls_k[j].bufs[3] = calls_k[j - 1].bufs[2]
       /\ calls_k # << >> =>
            /\ pt.conserved1 = calls_k[Len(calls_k)].bufs[3]
            /\ pt.conserved2 = calls_k[Len(calls_k)].bufs[2]

\* What a step that changes the contents of conserved0 of a patch is.
C16_FrozenStep ==
  \A k \in 1..Len(srhd.patches) :
    LET pt == srhd.patches[k]
        nw == srhd'.patches[k]
    IN Frozen(nw) # Frozen(pt) =>
         /\ pc = "srhd_idle" /\ pc' = "srhd_idle"
         /\ Frozen(nw) = pt.bufs[pt.conserved1]
         /\ nw.bufs[nw.conserved1] = pt.bufs[pt.conserved1]
         /\ <<nw.conserved0, nw.conserved1, nw.conserved2>>
              = <<pt.conserved0, pt.conserved1, pt.conserved2>>

\* C16: conserved0, conserved1 and conserved2 of a patch are always three
\* distinct buffers; every advance_rk gives the native advance conserved0 as
\* the frozen state, conserved1 as the source and conserved2 as the
\* destination and then swaps, so that conserved1 names the buffer just
\* written; and the contents of conserved0 change only in new_timestep, which
\* copies the contents of conserved1 into it and leaves the handles alone.
C16_PatchBuffers == [](C16_Handles) /\ [][C16_FrozenStep]_vars

C16_Witness ==
  /\ pc = "srhd_idle" /\ srhd.ops = 3 /\ Len(srhd.patches) >= 2 /\ WideEnough
  /\ LET pt == srhd.patches[1]
     IN /\ Len(AdvanceCalls(1)) = 2 /\ pt.time0 # 0 /\ pt.time # pt.time0
        /\ pt.conserved1 = "c_b"
        /\ Frozen(pt) # pt.bufs[pt.conserved1]
        /\ Frozen(pt) # srhd_1d_primitive_to_conserved(PatchPrimitive(0, InteriorZones(pt)))

\* Between calls all patches hold one time and one time0.
C17_OneClock ==
  pc = "srhd_idle" =>
    \A k \in 1..Len(srhd.patches) :
      /\ srhd.patches[k].time = srhd.patches[1].time
      /\ srhd.patches[k].time0 = srhd.patches[1].time0

\* What a step does to the times of a patch.
C17_TimeStep ==
  \A k \in 1..Len(srhd.patches) :
    LET pt == srhd.patches[k]
        nw == srhd'.patches[k]
        rk == srhd.rk
        made == srhd'.native
    IN /\ (pc = "patch_advance" /\ srhd.i = k) =>
            /\ nw.time * rk[2] = pt.time0 * rk[1] + (pt.time0 + srhd.dt) * (rk[2] - rk[1])
            /\ nw.time0 = pt.time0
            /\ made[Len(made)].fn = "srhd_1d_advance_rk"
            /\ made[Len(made)].patch = k
            /\ made[Len(made)].time = pt.time
       /\ ~(pc = "patch_advance" /\ srhd.i = k) => nw.time = pt.time
       /\ nw.time0 # pt.time0 => pc = "srhd_idle" /\ nw.time0 = pt.time

\* C17: Patch.advance_rk(alpha, dt) leaves the patch at the time
\* time0 alpha + (time0 + dt)(1 - alpha) and leaves time0 alone, so the stage
\* time does not build on the stage before; the native advance of a stage is
\* given the time the stage before left; time0 changes only in new_timestep,
\* to the time; and after every Solver.advance_rk and Solver.new_timestep all
\* patches hold the same time and time0.
C17_StageTime == [](C17_OneClock) /\ [][C17_TimeStep]_vars

C17_Witness ==
  /\ pc = "srhd_idle" /\ srhd.ops = 3 /\ Len(srhd.patches) = 3
  /\ Len(AdvanceCalls(3)) = 3
  /\ AdvanceCalls(3)[1].time = 0 /\ AdvanceCalls(3)[2].time = 12
  /\ AdvanceCalls(3)[3].time = 3
  /\ srhd.rk = <<1, 3>> /\ srhd.patches[3].time = 8 /\ srhd.patches[3].time0 = 0

Supported == sim # "none" /\ ~Unsupported
With(c, field, value) == [c EXCEPT ![field] = value]

\* C18: update_prim and update_prim2d return with fwd the array they return
\* with rk1, in every cell: the array a fwd or rk1 call is about to return is
\* the one the call with the other of the two gives on the same input.
C18_FwdIsRk1 ==
  (pc = "return" /\ cfg.time_integration \in {"fwd", "rk1"}) =>
    LET two_d == sim = "simulation2d"
        fwd == update_prim_result(p0, With(cfg, "time_integration", "fwd"), two_d)
        rk1 == update_prim_result(p0, With(cfg, "time_integration", "rk1"), two_d)
    IN heap[returned] = fwd /\ heap[returned] = rk1

C18_Witness ==
  /\ pc = "return" /\ cfg.time_integration = "rk1" /\ sim = "simulation2d"
  /\ solver.plm /\ solver.runge_kutta /\ Interior # {} /\ calls = 1
  /\ heap.urk # NoArray /\ heap[returned] # p0
  /\ heap[returned]
       = update_prim_result(p0, With(cfg, "time_integration", "fwd"), TRUE)

\* The other 1D strategy.
OtherFluxing(fl) == IF fl = "per_face" THEN "per_zone" ELSE "per_face"

\* C19: in 1D, per_face and per_zone return the same array, guard cells
\* included, for every reconstruction and time_integration; and the flux kernel
\* takes for the face it stores at f[i] the states, and stores the flux, that
\* the per-zone kernel takes for the right face of cell i-1 and for the left
\* face of cell i, the first and the last interior face included.
C19_SameUpdate ==
  /\ (pc = "return" /\ sim = "simulation1d") =>
       /\ heap[returned] = update_prim_result(p0, cfg, FALSE)
       /\ heap[returned]
            = update_prim_result(p0, With(cfg, "fluxing", OtherFluxing(cfg.fluxing)), FALSE)
  /\ (pc = "update" /\ InPlace) =>
       LET Lf == FluxLaunch
           Lz == [UpdateLaunch EXCEPT !.cls = "FluxPerZoneSolver"]
           Vf(i) == [s \in compute_godunov_fluxes_reads(Lf, i) |-> LoadSlot(heap, s)]
           Vz(i) == [s \in FluxPerZoneSolver_update_prim_reads(Lz, i) |-> LoadSlot(heap, s)]
           Face(i) == compute_godunov_fluxes_faces(Vf(i - 1), Lf, i - 1)
           Zone(i) == FluxPerZoneSolver_faces(Vz(i), Lz, i)
       IN \A i \in Interior :
            /\ Face(i).pm = Zone(i).plp /\ Face(i).pp = Zone(i).pcm
            /\ Face(i + 1).pm = Zone(i).pcp /\ Face(i + 1).pp = Zone(i).prm
            /\ heap.f[i] = FluxPerZoneSolver_fluxes(Vz(i), Lz, i).fm
            /\ heap.f[i + 1] = FluxPerZoneSolver_fluxes(Vz(i), Lz, i).fp

C19_Witness ==
  /\ pc = "return" /\ InPlace /\ cfg.time_integration = "rk3" /\ solver.plm
  /\ cfg.ni = MaxNi /\ cfg.profile = "ramp" /\ calls = 1
  /\ heap[returned] # p0
  /\ \E i \in Interior : heap.f[i] # heap.f[i + 1]
  /\ heap[returned] = update_prim_result(p0, With(cfg, "fluxing", "per_zone"), FALSE)

\* The guard cells of an array: all but the interior.
GuardCells(a) == DOMAIN a \ Interior

\* C20: whatever the fluxing, reconstruction and time_integration, and however
\* many calls were made, the guard cells (two on each side of each axis) of
\* both primitive buffers, the returned array and the scratch buffer, hold the
\* values of the initial array at every moment.
C20_GuardsKept ==
  sim # "none" =>
    \A b \in PrimBufs :
      heap[b] # NoArray =>
        /\ DOMAIN heap[b] = DOMAIN InitialArray(sim, cfg)
        /\ \A c \in GuardCells(heap[b]) : heap[b][c] = InitialArray(sim, cfg)[c]

C20_Witness ==
  /\ pc = "loop" /\ calls = MaxCalls /\ sim = "simulation2d"
  /\ cfg.time_integration = "rk2" /\ cfg.reconstruction = "plm"
  /\ cfg.profile = "ramp" /\ Interior # {}
  /\ heap[Other(p)] # NoArray
  /\ \A c \in Interior : heap[p][c] # InitialArray(sim, cfg)[c]
  /\ \A c \in GuardCells(heap[p]) : heap[p][c] = InitialArray(sim, cfg)[c]

====
